---- MODULE Spec2Model ----
(***************************************************************************)
(* MeshToBodyBatch005.py: batch conversion of the mesh objects of a        *)
(* FreeCAD document into PartDesign bodies.                                *)
(*                                                                         *)
(* The program is single threaded.  Its four nested functions              *)
(*   convert_all_document_meshes -> convert_single_mesh                    *)
(*     -> evaluate_mesh_automated -> attempt_mesh_repair                   *)
(*       -> attempt_comprehensive_manual_repair                            *)
(* are modelled as four program counters (bpc, cpc, epc, rpc); a caller    *)
(* waits while its callee runs and takes the callee's result when the      *)
(* callee is at "ret".  Every call into the host (document store, mesh     *)
(* backend, shape kernel) is one step that either returns or raises;      *)
(* removeObject raises only for a name the document does not hold.         *)
(***************************************************************************)
EXTENDS Naturals, Sequences, FiniteSets, TLC

(***************************************************************************)
(* Bounds of the model.                                                    *)
(***************************************************************************)
MaxPoints == 1
MaxFacets == 1
MaxMeshes == 2
MaxFaults == 7
MaxBatchFaults == 1

VARIABLES
  document,       \* doc.Objects: the entities of the document, in order
  txnOpen,        \* a transaction is open in the document
  txnSaved,       \* the document as it was when the open transaction began
  txnLog,         \* the transaction calls made so far, in order
  undoMode,       \* the host records transactions (abort rolls back)
  ActiveDocument, \* FreeCAD.ActiveDocument is a document (not None)
  writes,         \* number of assignments to an entity's Mesh property
  recomputes,     \* number of doc.recompute() calls
  faults,         \* number of host calls that have raised
  \* attempt_comprehensive_manual_repair
  rpc, r_mesh_obj, original_mesh_topology, mutable_mesh, repairs_applied,
  self_intersections_fixed_on_mutable, initial_has_self_intersections,
  r_method, r_result,
  \* evaluate_mesh_automated
  epc, e_selected_mesh, e_query, e_repairs, e_result,
  \* convert_single_mesh
  cpc, c_mesh_obj, base_transaction, base_name, c_objs, c_entry, c_eval,
  c_result,
  \* convert_all_document_meshes
  bpc, mesh_objects, b_i, results, b_items

docVars == <<document, txnOpen, txnSaved, txnLog, undoMode, ActiveDocument, writes, recomputes>>
hostVars == <<docVars, faults>>
rVars == <<rpc, r_mesh_obj, original_mesh_topology, mutable_mesh, repairs_applied,
           self_intersections_fixed_on_mutable, initial_has_self_intersections,
           r_method, r_result>>
eVars == <<epc, e_selected_mesh, e_query, e_repairs, e_result>>
cVars == <<cpc, c_mesh_obj, base_transaction, base_name, c_objs, c_entry, c_eval,
           c_result>>
bVars == <<bpc, mesh_objects, b_i, results, b_items>>
vars == <<hostVars, rVars, eVars, cVars, bVars>>

(***************************************************************************)
(* Mesh data.  The mesh backend is opaque to the program: all it reads of  *)
(* a mesh are the three predicates and the two counts.                     *)
(***************************************************************************)
Meshes ==
  [isSolid : BOOLEAN, hasNonManifolds : BOOLEAN, hasSelfIntersections : BOOLEAN,
   CountPoints : 0..MaxPoints, CountFacets : 0..MaxFacets]

NoMesh == [none |-> TRUE]

\* No predicates queried yet.
NoQuery == [none |-> TRUE]

None == "None"

\* A call into the host raises: whenever it must (forced), and otherwise as
\* long as the run has raised fewer exceptions than the bound allows.
FaultLimit == IF bpc = "idle" THEN MaxFaults ELSE MaxBatchFaults

Raises(forced) ==
  IF forced THEN UNCHANGED faults
  ELSE faults < FaultLimit /\ faults' = faults + 1

Returns == UNCHANGED faults

Less(n) == IF n > 0 THEN n - 1 ELSE n
More(n, max) == IF n < max THEN n + 1 ELSE n

(***************************************************************************)
(* The corrective methods of the mesh backend, by what a call that returns *)
(* may have done to the mesh it is called on: nothing, or the correction   *)
(* its name says.  Removing facets may open the surface; closing holes may *)
(* make new facets cross old ones.                                         *)
(***************************************************************************)
fixSelfIntersections(m) ==
  {m} \cup
  IF m.hasSelfIntersections
  THEN {[m EXCEPT !.hasSelfIntersections = FALSE,
                  !.CountFacets = Less(@), !.isSolid = s] : s \in {m.isSolid, FALSE}}
  ELSE {}

harmonizeNormals(m) == {m}

removeDuplicatedPoints(m) == {m, [m EXCEPT !.CountPoints = Less(@)]}

removeDuplicatedFacets(m) == {m, [m EXCEPT !.CountFacets = Less(@)]}

removeInvalidPoints(m) == {m, [m EXCEPT !.CountPoints = Less(@)]}

removeNonManifolds(m) ==
  {m} \cup
  IF m.hasNonManifolds
  THEN {[m EXCEPT !.hasNonManifolds = FALSE, !.CountFacets = Less(@)]}
  ELSE {}

removeFoldsOnSurface(m) ==
  {m} \cup
  IF m.hasSelfIntersections
  THEN {[m EXCEPT !.hasSelfIntersections = FALSE, !.CountFacets = Less(@)]}
  ELSE {}

fillupHoles(m) ==
  {m} \cup
  IF ~m.isSolid
  THEN {[m EXCEPT !.isSolid = TRUE, !.CountFacets = More(@, MaxFacets),
                  !.hasSelfIntersections = x] : x \in {m.hasSelfIntersections, TRUE}}
  ELSE {}

(***************************************************************************)
(* The document store.  An entity is [Name, TypeId, Mesh]; Mesh is NoMesh  *)
(* for an entity that has no mesh data.                                    *)
(***************************************************************************)
Names(doc) == {doc[i].Name : i \in DOMAIN doc}

getObject(doc, name) ==
  IF name \in Names(doc)
  THEN doc[CHOOSE i \in DOMAIN doc : doc[i].Name = name]
  ELSE None

\* The host never gives two entities the same name: a requested name that is
\* taken gets the first free numeric suffix.
UniqueName(doc, name) ==
  LET cand == <<name, name \o "001", name \o "002", name \o "003", name \o "004">>
  IN  cand[CHOOSE i \in DOMAIN cand :
             /\ cand[i] \notin Names(doc)
             /\ \A j \in 1..(i - 1) : cand[j] \in Names(doc)]

addObject(doc, type, name) ==
  Append(doc, [Name |-> UniqueName(doc, name), TypeId |-> type, Mesh |-> NoMesh])

removeObject(doc, name) == SelectSeq(doc, LAMBDA e : e.Name # name)

setMesh(doc, name, m) ==
  [i \in DOMAIN doc |-> IF doc[i].Name = name THEN [doc[i] EXCEPT !.Mesh = m] ELSE doc[i]]

HasMesh(e) == e.Mesh # NoMesh

(***************************************************************************)
(* attempt_comprehensive_manual_repair(mesh_obj)                           *)
(***************************************************************************)
\* Variant of repair_methods: non-manifolds are removed first.
repair_methods_reordered ==
  << [method_name |-> "removeNonManifolds",     description |-> "Remove non-manifolds"],
     [method_name |-> "removeDuplicatedPoints", description |-> "Remove duplicate points"],
     [method_name |-> "removeDuplicatedFacets", description |-> "Remove duplicate facets"],
     [method_name |-> "removeInvalidPoints",    description |-> "Remove invalid points"],
     [method_name |-> "removeFoldsOnSurface",   description |-> "Remove surface folds"] >>

repair_methods ==
  << [method_name |-> "removeDuplicatedPoints", description |-> "Remove duplicate points"],
     [method_name |-> "removeDuplicatedFacets", description |-> "Remove duplicate facets"],
     [method_name |-> "removeInvalidPoints",    description |-> "Remove invalid points"],
     [method_name |-> "removeNonManifolds",     description |-> "Remove non-manifolds"],
     [method_name |-> "removeFoldsOnSurface",   description |-> "Remove surface folds"] >>

\* The methods Mesh.Mesh offers (what hasattr answers).
MeshMethods ==
  {"removeDuplicatedPoints", "removeDuplicatedFacets", "removeInvalidPoints",
   "removeNonManifolds", "removeFoldsOnSurface"}

\* getattr(mutable_mesh, method_name)()
CallMethod(method_name, m) ==
  CASE method_name = "removeDuplicatedPoints" -> removeDuplicatedPoints(m)
    [] method_name = "removeDuplicatedFacets" -> removeDuplicatedFacets(m)
    [] method_name = "removeInvalidPoints"    -> removeInvalidPoints(m)
    [] method_name = "removeNonManifolds"     -> removeNonManifolds(m)
    [] method_name = "removeFoldsOnSurface"   -> removeFoldsOnSurface(m)

FixLabel == "Fix self-intersections (priority)"
HarmonizeLabel == "Harmonize Normals (after self-intersection fix)"
FillLabel == "Fill small holes"

RepairIdle ==
  /\ rpc = "idle" /\ r_mesh_obj = None
  /\ original_mesh_topology = NoMesh /\ mutable_mesh = NoMesh
  /\ repairs_applied = <<>> /\ self_intersections_fixed_on_mutable = FALSE
  /\ initial_has_self_intersections = FALSE /\ r_method = 1 /\ r_result = FALSE

\* The call: fresh locals (lines 10, 22, 24).
RepairCalled(name) ==
  /\ rpc' = "copy" /\ r_mesh_obj' = name
  /\ original_mesh_topology' = NoMesh /\ mutable_mesh' = NoMesh
  /\ repairs_applied' = <<>> /\ self_intersections_fixed_on_mutable' = FALSE
  /\ initial_has_self_intersections' = FALSE /\ r_method' = 1 /\ r_result' = FALSE

\* return <value>, also from the outer except (lines 120, 123, 127).
RepairReturn(value) == rpc' = "ret" /\ r_result' = value

\* What a step of the repair leaves alone when it changes only its position,
\* its result and the fault count.
rLocals ==
  <<r_mesh_obj, original_mesh_topology, mutable_mesh, repairs_applied,
    self_intersections_fixed_on_mutable, initial_has_self_intersections, r_method>>

rOthers == <<eVars, cVars, bVars>>

\* Lines 17-19: the independent mutable copy of the entity's mesh data.
r_copy ==
  /\ rpc = "copy"
  /\ \/ /\ r_mesh_obj \in Names(document)
        /\ original_mesh_topology' = getObject(document, r_mesh_obj).Mesh
        /\ mutable_mesh' = getObject(document, r_mesh_obj).Mesh
        /\ rpc' = "query"
        /\ Returns
        /\ UNCHANGED r_result
     \/ /\ Raises(r_mesh_obj \notin Names(document))
        /\ RepairReturn(FALSE)
        /\ UNCHANGED <<original_mesh_topology, mutable_mesh>>
  /\ UNCHANGED <<r_mesh_obj, repairs_applied, self_intersections_fixed_on_mutable,
                 initial_has_self_intersections, r_method>>
  /\ UNCHANGED <<docVars, rOthers>>

\* Variant of r_query: the priority pass runs whatever the initial query says.
r_query_unguarded ==
  /\ rpc = "query"
  /\ \/ /\ initial_has_self_intersections' = mutable_mesh.hasSelfIntersections
        /\ rpc' = "fix"
        /\ Returns
        /\ UNCHANGED r_result
     \/ /\ Raises(FALSE)
        /\ RepairReturn(FALSE)
        /\ UNCHANGED initial_has_self_intersections
  /\ UNCHANGED <<r_mesh_obj, original_mesh_topology, mutable_mesh, repairs_applied,
                 self_intersections_fixed_on_mutable, r_method>>
  /\ UNCHANGED <<docVars, rOthers>>

\* Lines 31-33: the initial query decides whether the priority pass runs.
r_query ==
  /\ rpc = "query"
  /\ \/ /\ initial_has_self_intersections' = mutable_mesh.hasSelfIntersections
        /\ rpc' = IF mutable_mesh.hasSelfIntersections THEN "fix" ELSE "loop"
        /\ Returns
        /\ UNCHANGED r_result
     \/ /\ Raises(FALSE)
        /\ RepairReturn(FALSE)
        /\ UNCHANGED initial_has_self_intersections
  /\ UNCHANGED <<r_mesh_obj, original_mesh_topology, mutable_mesh, repairs_applied,
                 self_intersections_fixed_on_mutable, r_method>>
  /\ UNCHANGED <<docVars, rOthers>>

\* Lines 36-37, and the except of line 57 when the call raises.
r_fix ==
  /\ rpc = "fix"
  /\ \/ /\ \E m \in fixSelfIntersections(mutable_mesh) : mutable_mesh' = m
        /\ repairs_applied' = Append(repairs_applied, FixLabel)
        /\ rpc' = "harmonize"
        /\ Returns
     \/ /\ Raises(FALSE)
        /\ rpc' = "loop"
        /\ UNCHANGED <<mutable_mesh, repairs_applied>>
  /\ UNCHANGED <<r_mesh_obj, original_mesh_topology, self_intersections_fixed_on_mutable,
                 initial_has_self_intersections, r_method, r_result>>
  /\ UNCHANGED <<docVars, rOthers>>

\* Lines 44-45, and the except of line 57 when the call raises.
r_harmonize ==
  /\ rpc = "harmonize"
  /\ \/ /\ \E m \in harmonizeNormals(mutable_mesh) : mutable_mesh' = m
        /\ repairs_applied' = Append(repairs_applied, HarmonizeLabel)
        /\ rpc' = "recheck"
        /\ Returns
     \/ /\ Raises(FALSE)
        /\ rpc' = "loop"
        /\ UNCHANGED <<mutable_mesh, repairs_applied>>
  /\ UNCHANGED <<r_mesh_obj, original_mesh_topology, self_intersections_fixed_on_mutable,
                 initial_has_self_intersections, r_method, r_result>>
  /\ UNCHANGED <<docVars, rOthers>>

\* Lines 51-53: the flag after the internal check of the mutable mesh.
FixedFlag(m) == ~m.hasSelfIntersections

\* Lines 51-55, and the except of line 57 when the query raises.
r_recheck ==
  /\ rpc = "recheck"
  /\ \/ /\ self_intersections_fixed_on_mutable' = FixedFlag(mutable_mesh)
        /\ Returns
     \/ /\ Raises(FALSE)
        /\ UNCHANGED self_intersections_fixed_on_mutable
  /\ rpc' = "loop"
  /\ UNCHANGED <<r_mesh_obj, original_mesh_topology, mutable_mesh, repairs_applied,
                 initial_has_self_intersections, r_method, r_result>>
  /\ UNCHANGED <<docVars, rOthers>>

\* Lines 71-82: one iteration of the loop over repair_methods.
r_loop ==
  /\ rpc = "loop"
  /\ LET method_name == repair_methods[r_method].method_name
         description == repair_methods[r_method].description
     IN  IF method_name \in MeshMethods
         THEN \/ /\ \E m \in CallMethod(method_name, mutable_mesh) : mutable_mesh' = m
                 /\ repairs_applied' = Append(repairs_applied, description)
                 /\ Returns
              \/ /\ Raises(FALSE)
                 /\ UNCHANGED <<mutable_mesh, repairs_applied>>
         ELSE UNCHANGED <<mutable_mesh, repairs_applied, faults>>
  /\ IF r_method < Len(repair_methods)
     THEN r_method' = r_method + 1 /\ rpc' = "loop"
     ELSE UNCHANGED r_method /\ rpc' = "fill"
  /\ UNCHANGED <<r_mesh_obj, original_mesh_topology, self_intersections_fixed_on_mutable,
                 initial_has_self_intersections, r_result>>
  /\ UNCHANGED <<docVars, rOthers>>

\* Variant of r_fill: a raising fillupHoles ends the repair.
r_fill_aborting ==
  /\ rpc = "fill"
  /\ \/ /\ \E m \in fillupHoles(mutable_mesh) : mutable_mesh' = m
        /\ repairs_applied' = Append(repairs_applied, FillLabel)
        /\ rpc' = "applied"
        /\ Returns
        /\ UNCHANGED r_result
     \/ /\ Raises(FALSE)
        /\ RepairReturn(FALSE)
        /\ UNCHANGED <<mutable_mesh, repairs_applied>>
  /\ UNCHANGED <<r_mesh_obj, original_mesh_topology, self_intersections_fixed_on_mutable,
                 initial_has_self_intersections, r_method>>
  /\ UNCHANGED <<docVars, rOthers>>

\* Lines 85-93.
r_fill ==
  /\ rpc = "fill"
  /\ \/ /\ \E m \in fillupHoles(mutable_mesh) : mutable_mesh' = m
        /\ repairs_applied' = Append(repairs_applied, FillLabel)
        /\ Returns
     \/ /\ Raises(FALSE)
        /\ UNCHANGED <<mutable_mesh, repairs_applied>>
  /\ rpc' = "applied"
  /\ UNCHANGED <<r_mesh_obj, original_mesh_topology, self_intersections_fixed_on_mutable,
                 initial_has_self_intersections, r_method, r_result>>
  /\ UNCHANGED <<docVars, rOthers>>

\* Variant of AnyRepairApplied: the write-back is taken unconditionally.
AnyRepairApplied_always(applied) == TRUE

\* Line 95: the truth value of the list repairs_applied.
AnyRepairApplied(applied) == applied # <<>>

\* Lines 95 and 121-123.
r_applied ==
  /\ rpc = "applied"
  /\ IF AnyRepairApplied(repairs_applied)
     THEN rpc' = "write" /\ UNCHANGED r_result
     ELSE RepairReturn(FALSE)
  /\ UNCHANGED <<rLocals, hostVars, rOthers>>

\* Line 97: mesh_obj.Mesh = mutable_mesh (raises on a deleted entity).
r_write ==
  /\ rpc = "write"
  /\ \/ /\ r_mesh_obj \in Names(document)
        /\ document' = setMesh(document, r_mesh_obj, mutable_mesh)
        /\ writes' = writes + 1
        /\ rpc' = "recompute"
        /\ Returns
        /\ UNCHANGED r_result
     \/ /\ Raises(r_mesh_obj \notin Names(document))
        /\ RepairReturn(FALSE)
        /\ UNCHANGED <<document, writes>>
  /\ UNCHANGED <<txnOpen, txnSaved, txnLog, undoMode, ActiveDocument, recomputes>>
  /\ UNCHANGED <<rLocals, rOthers>>

\* The number of recomputes forced after the write-back (lines 100-102).
RepairRecomputes == 3

\* Lines 100-102.
r_recompute ==
  /\ rpc = "recompute"
  /\ \/ /\ recomputes' = recomputes + RepairRecomputes
        /\ rpc' = "requery"
        /\ Returns
        /\ UNCHANGED r_result
     \/ /\ Raises(FALSE)
        /\ recomputes' = recomputes + 1
        /\ RepairReturn(FALSE)
  /\ UNCHANGED <<document, txnOpen, txnSaved, txnLog, undoMode, ActiveDocument, writes>>
  /\ UNCHANGED <<rLocals, rOthers>>

\* Variant of FinalHasSelfIntersections: the override without its negation.
FinalHasSelfIntersections_plain(queried, initial, fixed) ==
  IF initial THEN fixed ELSE queried

\* Lines 111-113: the document's report, overridden by the internal check
\* when the priority pass was attempted.
FinalHasSelfIntersections(queried, initial, fixed) ==
  IF initial THEN ~fixed ELSE queried

\* Variant of RepairVerdict: non-manifolds do not count.
RepairVerdict_solidOnly(is_solid, has_non_manifolds, final_has_self_intersections) ==
  is_solid /\ ~final_has_self_intersections

\* Line 120.
RepairVerdict(is_solid, has_non_manifolds, final_has_self_intersections) ==
  is_solid /\ ~has_non_manifolds /\ ~final_has_self_intersections

\* Lines 105-120: re-query the entity after the recompute.
r_requery ==
  /\ rpc = "requery"
  /\ \/ /\ r_mesh_obj \in Names(document)
        /\ LET current_mesh_data == getObject(document, r_mesh_obj).Mesh
           IN  RepairReturn(RepairVerdict(
                 current_mesh_data.isSolid,
                 current_mesh_data.hasNonManifolds,
                 FinalHasSelfIntersections(current_mesh_data.hasSelfIntersections,
                                           initial_has_self_intersections,
                                           self_intersections_fixed_on_mutable)))
        /\ Returns
     \/ /\ Raises(r_mesh_obj \notin Names(document))
        /\ RepairReturn(FALSE)
  /\ UNCHANGED <<rLocals, docVars, rOthers>>

NextRepair ==
  \/ r_copy \/ r_query \/ r_fix \/ r_harmonize \/ r_recheck
  \/ r_loop \/ r_fill \/ r_applied \/ r_write \/ r_recompute \/ r_requery

\* The frame of a repair call that has returned and been consumed.
RepairCleared ==
  /\ rpc' = "idle" /\ r_mesh_obj' = None
  /\ original_mesh_topology' = NoMesh /\ mutable_mesh' = NoMesh
  /\ repairs_applied' = <<>> /\ self_intersections_fixed_on_mutable' = FALSE
  /\ initial_has_self_intersections' = FALSE /\ r_method' = 1 /\ r_result' = FALSE

(***************************************************************************)
(* attempt_mesh_repair(mesh_obj, ...): only calls the comprehensive manual *)
(* repair and passes its verdict on (lines 140-147).                       *)
(***************************************************************************)
attempt_mesh_repair(success) == IF success THEN TRUE ELSE FALSE

(***************************************************************************)
(* evaluate_mesh_automated(selected_mesh)                                  *)
(***************************************************************************)
EvaluateIdle ==
  /\ epc = "idle" /\ e_selected_mesh = None /\ e_query = NoQuery
  /\ e_repairs = 0 /\ e_result = None

EvaluateCalled(name) ==
  /\ epc' = "query" /\ e_selected_mesh' = name /\ e_query' = NoQuery
  /\ e_repairs' = 0 /\ e_result' = None

EvaluateCleared ==
  /\ epc' = "idle" /\ e_selected_mesh' = None /\ e_query' = NoQuery
  /\ e_repairs' = 0 /\ e_result' = None

\* Lines 164-166: the three predicates of the entity's mesh data.
Query(mesh) ==
  [is_solid |-> mesh.isSolid,
   has_non_manifolds |-> mesh.hasNonManifolds,
   has_self_intersections |-> mesh.hasSelfIntersections]

\* Lines 161-176, and the except of lines 203-205 when a query raises.
e_evaluate ==
  /\ epc = "query"
  /\ \/ /\ e_selected_mesh \in Names(document)
        /\ e_query' = Query(getObject(document, e_selected_mesh).Mesh)
        /\ epc' = "decide"
        /\ Returns
        /\ UNCHANGED e_result
     \/ /\ Raises(e_selected_mesh \notin Names(document))
        /\ epc' = "ret"
        /\ e_result' = "cancel"
        /\ UNCHANGED e_query
  /\ UNCHANGED <<e_selected_mesh, e_repairs>>
  /\ UNCHANGED <<docVars, rVars, cVars, bVars>>

\* Variant of Decision: repair is attempted only when both flaws are present.
Decision_bothFlaws(is_solid, has_non_manifolds, has_self_intersections) ==
  IF is_solid /\ ~has_non_manifolds /\ ~has_self_intersections
  THEN "proceed"
  ELSE IF is_solid /\ (has_non_manifolds /\ has_self_intersections)
       THEN "attempt_repair"
       ELSE "repair"

\* Lines 180-201: the decision table.
Decision(is_solid, has_non_manifolds, has_self_intersections) ==
  IF is_solid /\ ~has_non_manifolds /\ ~has_self_intersections
  THEN "proceed"
  ELSE IF is_solid /\ (has_non_manifolds \/ has_self_intersections)
       THEN "attempt_repair"
       ELSE "repair"

\* Lines 180-189 and 199-201.
e_decide ==
  /\ epc = "decide"
  /\ LET d == Decision(e_query.is_solid, e_query.has_non_manifolds,
                       e_query.has_self_intersections)
     IN  IF d = "attempt_repair"
         THEN /\ RepairCalled(e_selected_mesh)
              /\ e_repairs' = e_repairs + 1
              /\ epc' = "repairing"
              /\ UNCHANGED e_result
         ELSE /\ epc' = "ret"
              /\ e_result' = d
              /\ UNCHANGED <<rVars, e_repairs>>
  /\ UNCHANGED <<e_selected_mesh, e_query>>
  /\ UNCHANGED <<hostVars, cVars, bVars>>

\* Lines 191-197: the outcome of the repair decides.
AfterRepair(repair_success) == IF repair_success THEN "proceed" ELSE "repair"

e_repaired ==
  /\ epc = "repairing" /\ rpc = "ret"
  /\ epc' = "ret"
  /\ e_result' = AfterRepair(attempt_mesh_repair(r_result))
  /\ UNCHANGED <<e_selected_mesh, e_query, e_repairs>>
  /\ UNCHANGED <<hostVars, rVars, cVars, bVars>>

NextEvaluate == e_evaluate \/ e_decide \/ e_repaired \/ NextRepair

(***************************************************************************)
(* Transactions of the document store.  With undoMode the host records     *)
(* the changes of an open transaction and abortTransaction undoes them.    *)
(***************************************************************************)
openTransaction ==
  /\ txnOpen' = TRUE
  /\ txnSaved' = IF undoMode THEN document ELSE <<>>
  /\ txnLog' = Append(txnLog, "open")

commitTransaction ==
  /\ txnOpen' = FALSE
  /\ txnSaved' = <<>>
  /\ txnLog' = Append(txnLog, "commit")

\* The document after abortTransaction, doc being the document before it.
Aborted(doc) == IF undoMode /\ txnOpen THEN txnSaved ELSE doc

abortTransaction ==
  /\ txnOpen' = FALSE
  /\ txnSaved' = <<>>
  /\ txnLog' = Append(txnLog, "abort")

(***************************************************************************)
(* convert_single_mesh(mesh_obj, base_transaction)                         *)
(***************************************************************************)
NoObjects ==
  [shape_obj |-> None, solid_obj |-> None, refined_obj |-> None,
   simple_copy_obj |-> None, body_obj |-> None]

NoResult == [success |-> FALSE, body_name |-> None]

ConvertIdle ==
  /\ cpc = "idle" /\ c_mesh_obj = None /\ base_transaction = FALSE
  /\ base_name = None /\ c_objs = NoObjects /\ c_entry = <<>>
  /\ c_eval = [result |-> None, repairs |-> 0] /\ c_result = NoResult

ConvertCalled(name, base) ==
  /\ cpc' = "open" /\ c_mesh_obj' = name /\ base_transaction' = base
  /\ base_name' = None /\ c_objs' = NoObjects /\ c_entry' = document
  /\ c_eval' = [result |-> None, repairs |-> 0] /\ c_result' = NoResult

ConvertCleared ==
  /\ cpc' = "idle" /\ c_mesh_obj' = None /\ base_transaction' = FALSE
  /\ base_name' = None /\ c_objs' = NoObjects /\ c_entry' = <<>>
  /\ c_eval' = [result |-> None, repairs |-> 0] /\ c_result' = NoResult

\* return False, None (lines 256, 328) and return True, body_obj.Name (304).
ConvertReturn(success, body_name) ==
  /\ cpc' = "ret"
  /\ c_result' = [success |-> success, body_name |-> body_name]

cFrame == <<c_mesh_obj, base_transaction, c_entry>>

\* Variant of c_open: the transaction is opened whoever owns one.
c_open_always ==
  /\ cpc = "open"
  /\ openTransaction
  /\ EvaluateCalled(c_mesh_obj)
  /\ cpc' = "evaluated"
  /\ UNCHANGED <<cFrame, base_name, c_objs, c_eval, c_result>>
  /\ UNCHANGED <<document, undoMode, ActiveDocument, writes, recomputes, faults>>
  /\ UNCHANGED <<rVars, bVars>>

\* Lines 246-251: open the transaction unless the caller owns one, then
\* evaluate the mesh.
c_open ==
  /\ cpc = "open"
  /\ IF ~base_transaction
     THEN openTransaction
     ELSE UNCHANGED <<txnOpen, txnSaved, txnLog>>
  /\ EvaluateCalled(c_mesh_obj)
  /\ cpc' = "evaluated"
  /\ UNCHANGED <<cFrame, base_name, c_objs, c_eval, c_result>>
  /\ UNCHANGED <<document, undoMode, ActiveDocument, writes, recomputes, faults>>
  /\ UNCHANGED <<rVars, bVars>>

\* Variant of Accepted: only a cancelled evaluation stops the conversion.
Accepted_unlessCancelled(evaluation_result) == evaluation_result # "cancel"

\* Line 253.
Accepted(evaluation_result) == evaluation_result = "proceed"

\* Lines 251-260: the evaluation's result; not "proceed" aborts and fails.
c_evaluated ==
  /\ cpc = "evaluated" /\ epc = "ret"
  /\ c_eval' = [result |-> e_result, repairs |-> e_repairs]
  /\ EvaluateCleared /\ RepairCleared
  /\ IF ~Accepted(e_result)
     THEN /\ IF ~base_transaction
             THEN abortTransaction /\ document' = Aborted(document)
             ELSE UNCHANGED <<document, txnOpen, txnSaved, txnLog>>
          /\ ConvertReturn(FALSE, None)
          /\ UNCHANGED base_name
     ELSE /\ base_name' = c_mesh_obj
          /\ cpc' = "shape"
          /\ UNCHANGED <<document, txnOpen, txnSaved, txnLog, c_result>>
  /\ UNCHANGED <<cFrame, c_objs>>
  /\ UNCHANGED <<undoMode, ActiveDocument, writes, recomputes, faults>>
  /\ UNCHANGED bVars

\* What an action of the conversion leaves alone besides the document, its
\* position and the entities it has created.
cRest ==
  <<cFrame, base_name, c_eval, c_result, txnOpen, txnSaved, txnLog, undoMode, ActiveDocument,
    writes, rVars, eVars, bVars>>

\* doc.addObject(type, base_name + suffix) at position here, followed by the
\* calls that fill the new entity in: all returned (on to next), the
\* addObject raised, or a later call raised.
AddStep(here, type, suffix, next) ==
  /\ cpc = here
  /\ \/ /\ document' = addObject(document, type, base_name \o suffix)
        /\ \/ cpc' = next /\ Returns
           \/ cpc' = "except" /\ Raises(FALSE)
     \/ /\ cpc' = "except"
        /\ Raises(FALSE)
        /\ UNCHANGED document
  /\ UNCHANGED cRest

\* The name the host gives the entity that is being added.
Added(field, suffix) ==
  IF document' # document
  THEN c_objs' = [c_objs EXCEPT ![field] = UniqueName(document, base_name \o suffix)]
  ELSE UNCHANGED c_objs

\* Lines 263-268: the shape entity and the shape made from the mesh.
c_shape ==
  /\ AddStep("shape", "Part::Feature", "_shape", "solid")
  /\ Added("shape_obj", "_shape")
  /\ UNCHANGED recomputes

\* Lines 271-272: the solid entity and the solid built from the shell.
c_solid ==
  /\ AddStep("solid", "Part::Feature", "_solid", "refine")
  /\ Added("solid_obj", "_solid")
  /\ UNCHANGED recomputes

\* Lines 275-279: the refine entity, then a recompute.
c_refine ==
  /\ AddStep("refine", "Part::Refine", "_solid_refined", "valid")
  /\ Added("refined_obj", "_solid_refined")
  /\ recomputes' = IF document' # document THEN recomputes + 1 ELSE recomputes

\* Lines 281 and 306-307: an invalid refined shape raises ValueError.
c_valid ==
  /\ cpc = "valid"
  /\ \/ cpc' = "simple"
     \/ cpc' = "except"
  /\ UNCHANGED <<cRest, document, c_objs, recomputes, faults>>

\* Lines 282-283: the standalone copy of the refined shape.
c_simple ==
  /\ AddStep("simple", "Part::Feature", "_solid_simple", "body")
  /\ Added("simple_copy_obj", "_solid_simple")
  /\ UNCHANGED recomputes

\* Lines 285-287: the body entity wrapping the copy.
c_body ==
  /\ AddStep("body", "PartDesign::Body", "_Body", "removeShape")
  /\ Added("body_obj", "_Body")
  /\ UNCHANGED recomputes

\* doc.removeObject(name) at position here: the entity is removed and the
\* conversion goes on to next.  The call raises only when the document holds
\* no entity of that name.
RemoveStep(here, name, next) ==
  /\ cpc = here
  /\ IF name \in Names(document)
     THEN document' = removeObject(document, name) /\ cpc' = next
     ELSE UNCHANGED document /\ cpc' = "except"
  /\ UNCHANGED <<cRest, c_objs, recomputes, faults>>

\* Lines 290-292: the intermediate entities, by the names the host gave them.
c_removeShape == RemoveStep("removeShape", c_objs.shape_obj, "removeSolid")

c_removeSolid == RemoveStep("removeSolid", c_objs.solid_obj, "removeRefined")

\* Variant of c_removeRefined: the refined solid is left in the document.
c_removeRefined_skipped ==
  /\ cpc = "removeRefined"
  /\ cpc' = "removeMesh"
  /\ UNCHANGED <<document, cRest, c_objs, recomputes, faults>>

c_removeRefined == RemoveStep("removeRefined", c_objs.refined_obj, "removeMesh")

\* Line 295: the original mesh.
c_removeMesh == RemoveStep("removeMesh", c_mesh_obj, "finish")

\* Lines 297-304: recompute, commit the own transaction, report the body.
c_finish ==
  /\ cpc = "finish"
  /\ recomputes' = recomputes + 1
  /\ \/ /\ IF ~base_transaction
           THEN commitTransaction
           ELSE UNCHANGED <<txnOpen, txnSaved, txnLog>>
        /\ ConvertReturn(TRUE, c_objs.body_obj)
        /\ Returns
     \/ /\ Raises(FALSE)
        /\ cpc' = "except"
        /\ UNCHANGED <<txnOpen, txnSaved, txnLog, c_result>>
  /\ UNCHANGED <<cFrame, base_name, c_eval, c_objs, document, undoMode, ActiveDocument, writes>>
  /\ UNCHANGED <<rVars, eVars, bVars>>

\* Lines 311-316: the names the cleanup looks for.
TempNames(name) ==
  <<name \o "_shape", name \o "_solid", name \o "_solid_refined",
    name \o "_solid_simple">>

\* Lines 311-316: those of them the document holds.
temp_objects(doc, name) ==
  {TempNames(name)[i] : i \in {j \in DOMAIN TempNames(name) :
                                  TempNames(name)[j] \in Names(doc)}}

\* Lines 318-322: doc without the entities named in gone.
RemoveAll(doc, gone) == SelectSeq(doc, LAMBDA e : e.Name \notin gone)

\* Variant of c_except: the own transaction is left open.
c_except_leavingOpen ==
  /\ cpc = "except"
  /\ document' = RemoveAll(document, temp_objects(document, base_name))
  /\ ConvertReturn(FALSE, None)
  /\ UNCHANGED <<txnOpen, txnSaved, txnLog>>
  /\ UNCHANGED <<cFrame, base_name, c_eval, c_objs>>
  /\ UNCHANGED <<undoMode, ActiveDocument, writes, recomputes, faults>>
  /\ UNCHANGED <<rVars, eVars, bVars>>

\* Lines 309-328: cleanup by name, abort of the own transaction, failure.
\* Every name in temp_objects was just found in the document, so no removal
\* raises (the bare except of line 321 has nothing to swallow).
c_except ==
  /\ cpc = "except"
  /\ LET cleaned == RemoveAll(document, temp_objects(document, base_name))
     IN  IF ~base_transaction
         THEN abortTransaction /\ document' = Aborted(cleaned)
         ELSE document' = cleaned /\ UNCHANGED <<txnOpen, txnSaved, txnLog>>
  /\ ConvertReturn(FALSE, None)
  /\ UNCHANGED <<cFrame, base_name, c_eval, c_objs>>
  /\ UNCHANGED <<undoMode, ActiveDocument, writes, recomputes, faults>>
  /\ UNCHANGED <<rVars, eVars, bVars>>

NextConvert ==
  \/ c_open \/ c_evaluated \/ c_shape \/ c_solid \/ c_refine \/ c_valid
  \/ c_simple \/ c_body \/ c_removeShape \/ c_removeSolid \/ c_removeRefined
  \/ c_removeMesh \/ c_finish \/ c_except \/ NextEvaluate

(***************************************************************************)
(* find_all_mesh_objects(doc): the entities that have mesh data, in the    *)
(* document's order (lines 221-226).                                       *)
(***************************************************************************)
find_all_mesh_objects(doc) ==
  LET found == SelectSeq(doc, HasMesh)
  IN  [i \in DOMAIN found |-> found[i].Name]

\* find_all_mesh_objects() with doc left to its default (lines 214-219): the
\* active document is searched, and with none the result is empty.
find_all_mesh_objects_default ==
  IF ~ActiveDocument THEN <<>> ELSE find_all_mesh_objects(document)

(***************************************************************************)
(* convert_all_document_meshes()                                           *)
(***************************************************************************)
\* Lines 368-376.
NewResults(n) ==
  [total_meshes |-> n, converted |-> 0, failed |-> 0, skipped |-> 0,
   converted_objects |-> <<>>, failed_objects |-> <<>>, skipped_objects |-> <<>>]

\* Line 349.
EmptyResults == [total_meshes |-> 0, converted |-> 0, failed |-> 0, skipped |-> 0]

\* Variant of b_start: discovery runs without looking for a document.
b_start_unguarded ==
  /\ bpc = "start"
  /\ mesh_objects' = find_all_mesh_objects(document)
  /\ IF find_all_mesh_objects(document) = <<>>
     THEN /\ results' = EmptyResults
          /\ bpc' = "ret"
          /\ UNCHANGED <<txnOpen, txnSaved, txnLog>>
     ELSE /\ openTransaction
          /\ results' = NewResults(Len(find_all_mesh_objects(document)))
          /\ bpc' = "item"
  /\ UNCHANGED <<b_i, b_items>>
  /\ UNCHANGED <<document, undoMode, ActiveDocument, writes, recomputes, faults>>
  /\ UNCHANGED <<rVars, eVars, cVars>>

\* Lines 338-376: no active document returns None; otherwise discovery,
\* where nothing found returns the empty summary and anything found opens
\* the master transaction.
b_start ==
  /\ bpc = "start"
  /\ IF ~ActiveDocument
     THEN /\ bpc' = "retNone"
          /\ UNCHANGED <<mesh_objects, results, txnOpen, txnSaved, txnLog>>
     ELSE /\ mesh_objects' = find_all_mesh_objects(document)
          /\ IF find_all_mesh_objects(document) = <<>>
             THEN /\ results' = EmptyResults
                  /\ bpc' = "ret"
                  /\ UNCHANGED <<txnOpen, txnSaved, txnLog>>
             ELSE /\ openTransaction
                  /\ results' = NewResults(Len(find_all_mesh_objects(document)))
                  /\ bpc' = "item"
  /\ UNCHANGED <<b_i, b_items>>
  /\ UNCHANGED <<document, undoMode, ActiveDocument, writes, recomputes, faults>>
  /\ UNCHANGED <<rVars, eVars, cVars>>

\* Lines 379-386: the next mesh object; reading the Name of an entity that
\* has been removed from the document raises.
b_item ==
  /\ bpc = "item" /\ b_i <= Len(mesh_objects)
  /\ IF mesh_objects[b_i] \in Names(document)
     THEN /\ ConvertCalled(mesh_objects[b_i], TRUE)
          /\ bpc' = "classify"
     ELSE /\ bpc' = "except"
          /\ UNCHANGED cVars
  /\ UNCHANGED <<mesh_objects, b_i, results, b_items>>
  /\ UNCHANGED <<hostVars, rVars, eVars>>

\* Line 393: the original mesh still exists.
StillMesh(doc, original_name) ==
  /\ original_name \in Names(doc)
  /\ getObject(doc, original_name).TypeId = "Mesh::Feature"

\* Variant of Classify: a conversion is counted but not listed.
Classify_unlisted(res, success, body_name, doc, original_name) ==
  IF success
  THEN [res EXCEPT !.converted = @ + 1]
  ELSE IF StillMesh(doc, original_name)
       THEN [res EXCEPT !.skipped = @ + 1,
                        !.skipped_objects = Append(@, original_name)]
       ELSE [res EXCEPT !.failed = @ + 1,
                        !.failed_objects = Append(@, original_name)]

\* Lines 388-398.
Classify(res, success, body_name, doc, original_name) ==
  IF success
  THEN [res EXCEPT !.converted = @ + 1,
                   !.converted_objects =
                      Append(@, [original |-> original_name, body |-> body_name])]
  ELSE IF StillMesh(doc, original_name)
       THEN [res EXCEPT !.skipped = @ + 1,
                        !.skipped_objects = Append(@, original_name)]
       ELSE [res EXCEPT !.failed = @ + 1,
                        !.failed_objects = Append(@, original_name)]

\* Lines 386-398: the outcome of one conversion is recorded.
b_classify ==
  /\ bpc = "classify" /\ cpc = "ret"
  /\ results' = Classify(results, c_result.success, c_result.body_name,
                         document, mesh_objects[b_i])
  /\ b_items' = Append(b_items,
                  [name |-> mesh_objects[b_i], eval |-> c_eval,
                   success |-> c_result.success,
                   present |-> mesh_objects[b_i] \in Names(document),
                   type |-> getObject(c_entry, mesh_objects[b_i]).TypeId])
  /\ ConvertCleared
  /\ b_i' = b_i + 1
  /\ bpc' = "item"
  /\ UNCHANGED mesh_objects
  /\ UNCHANGED <<hostVars, rVars, eVars>>

\* Lines 401 and 409: every mesh processed; commit and the final recompute.
b_commit ==
  /\ bpc = "item" /\ b_i > Len(mesh_objects)
  /\ commitTransaction
  /\ recomputes' = recomputes + 1
  /\ bpc' = "ret"
  /\ UNCHANGED <<mesh_objects, b_i, results, b_items>>
  /\ UNCHANGED <<document, undoMode, ActiveDocument, writes, faults>>
  /\ UNCHANGED <<rVars, eVars, cVars>>

\* Variant of b_except: the batch is committed after the exception.
b_except_committing ==
  /\ bpc = "except"
  /\ commitTransaction
  /\ bpc' = "retNone"
  /\ UNCHANGED <<mesh_objects, b_i, results, b_items>>
  /\ UNCHANGED <<document, undoMode, ActiveDocument, writes, recomputes, faults>>
  /\ UNCHANGED <<rVars, eVars, cVars>>

\* Lines 403-406: an exception escaped the loop; the batch is aborted and
\* None is returned.
b_except ==
  /\ bpc = "except"
  /\ abortTransaction
  /\ document' = Aborted(document)
  /\ bpc' = "retNone"
  /\ UNCHANGED <<mesh_objects, b_i, results, b_items>>
  /\ UNCHANGED <<undoMode, ActiveDocument, writes, recomputes, faults>>
  /\ UNCHANGED <<rVars, eVars, cVars>>

NextBatch ==
  \/ b_start \/ b_item \/ b_classify \/ b_commit \/ b_except \/ NextConvert

(***************************************************************************)
(* Initial states: the documents the program is run on.                    *)
(***************************************************************************)
Clean ==
  [isSolid |-> TRUE, hasNonManifolds |-> FALSE, hasSelfIntersections |-> FALSE,
   CountPoints |-> MaxPoints, CountFacets |-> MaxFacets]

SelfIntersecting == [Clean EXCEPT !.hasSelfIntersections = TRUE]

Open == [Clean EXCEPT !.isSolid = FALSE]

MeshEntity(name, type, mesh) == [Name |-> name, TypeId |-> type, Mesh |-> mesh]

OtherEntity(name) == [Name |-> name, TypeId |-> "Part::Feature", Mesh |-> NoMesh]

\* The entity kinds of a batch document: mesh features (also of the Python
\* feature type, which has mesh data too) and entities without mesh data.
BatchEntities(name) ==
  {MeshEntity(name, "Mesh::Feature", m) : m \in {Clean, SelfIntersecting, Open}}
  \cup {MeshEntity(name, "Mesh::FeaturePython", Open), OtherEntity(name)}

EntityNames == <<"A", "A_shape", "B">>

BatchDocuments ==
  {d \in UNION {[1..n -> UNION {BatchEntities(EntityNames[k]) : k \in DOMAIN EntityNames}]
                  : n \in 0..MaxMeshes} :
     \A i, j \in DOMAIN d : i # j => d[i].Name # d[j].Name}

HostInit(docs, undo) ==
  /\ document \in docs
  /\ undoMode \in undo
  /\ ActiveDocument = TRUE
  /\ txnOpen = FALSE /\ txnSaved = <<>> /\ txnLog = <<>>
  /\ writes = 0 /\ recomputes = 0 /\ faults = 0

BatchIdle ==
  /\ bpc = "idle" /\ mesh_objects = <<>> /\ b_i = 1
  /\ results = NewResults(0) /\ b_items = <<>>

\* The host with no document open.
NoActiveDocument ==
  /\ ActiveDocument = FALSE
  /\ document = <<>> /\ undoMode = FALSE
  /\ txnOpen = FALSE /\ txnSaved = <<>> /\ txnLog = <<>>
  /\ writes = 0 /\ recomputes = 0 /\ faults = 0

\* The program: convert_all_document_meshes() (line 492), on a document or
\* with no document open.
Init ==
  /\ HostInit(BatchDocuments, BOOLEAN) \/ NoActiveDocument
  /\ RepairIdle /\ EvaluateIdle /\ ConvertIdle
  /\ bpc = "start" /\ mesh_objects = <<>> /\ b_i = 1
  /\ results = NewResults(0) /\ b_items = <<>>

Next == NextBatch

Spec == Init /\ [][Next]_vars

\* attempt_comprehensive_manual_repair(mesh_obj) on a mesh entity.
InitRepair ==
  /\ HostInit({<<MeshEntity("A", "Mesh::Feature", m)>> : m \in Meshes}, {FALSE})
  /\ rpc = "copy" /\ r_mesh_obj = "A"
  /\ original_mesh_topology = NoMesh /\ mutable_mesh = NoMesh
  /\ repairs_applied = <<>> /\ self_intersections_fixed_on_mutable = FALSE
  /\ initial_has_self_intersections = FALSE /\ r_method = 1 /\ r_result = FALSE
  /\ EvaluateIdle /\ ConvertIdle /\ BatchIdle

SpecRepair == InitRepair /\ [][NextRepair]_vars

\* evaluate_mesh_automated(selected_mesh) on a mesh entity.
InitEvaluate ==
  /\ HostInit({<<MeshEntity("A", "Mesh::Feature", m)>> : m \in Meshes}, {FALSE})
  /\ RepairIdle
  /\ epc = "query" /\ e_selected_mesh = "A" /\ e_query = NoQuery
  /\ e_repairs = 0 /\ e_result = None
  /\ ConvertIdle /\ BatchIdle

SpecEvaluate == InitEvaluate /\ [][NextEvaluate]_vars

\* convert_single_mesh(mesh_obj, base_transaction) on a mesh entity of a
\* document that may hold another entity.
ConvertDocuments ==
  {<<MeshEntity("A", "Mesh::Feature", m)>> : m \in Meshes}
  \cup {<<MeshEntity("A", "Mesh::Feature", m), OtherEntity("A_solid")>> : m \in Meshes}

InitConvert ==
  /\ document \in ConvertDocuments
  /\ undoMode \in BOOLEAN
  /\ ActiveDocument = TRUE
  /\ base_transaction \in BOOLEAN
  /\ txnOpen = base_transaction
  /\ txnSaved = IF base_transaction /\ undoMode THEN document ELSE <<>>
  /\ txnLog = <<>> /\ writes = 0 /\ recomputes = 0 /\ faults = 0
  /\ RepairIdle /\ EvaluateIdle
  /\ cpc = "open" /\ c_mesh_obj = "A"
  /\ base_name = None /\ c_objs = NoObjects /\ c_entry = document
  /\ c_eval = [result |-> None, repairs |-> 0] /\ c_result = NoResult
  /\ BatchIdle

SpecConvert == InitConvert /\ [][NextConvert]_vars

\* Either entry point that opens a transaction: the batch run, or one
\* conversion called on its own.
SpecEntryPoints == (Init \/ InitConvert) /\ [][Next]_vars

(***************************************************************************)
(* Properties.                                                             *)
(***************************************************************************)
IsClean(m) == m.isSolid /\ ~m.hasNonManifolds /\ ~m.hasSelfIntersections

\* The entities of the document that were not there when convert_single_mesh
\* was called.
NewEntities == {i \in DOMAIN document : document[i].Name \notin Names(c_entry)}

NewBodies == {i \in NewEntities : document[i].TypeId = "PartDesign::Body"}

\* The names the host gave the entities the call created.
Created(fields) == {c_objs[f] : f \in fields} \ {None}

Intermediates == Created({"shape_obj", "solid_obj", "refined_obj"})

AllCreated ==
  Created({"shape_obj", "solid_obj", "refined_obj", "simple_copy_obj", "body_obj"})

ConvertFailed == cpc = "ret" /\ ~c_result.success

ConvertSucceeded == cpc = "ret" /\ c_result.success

\* C1 as stated: every mesh that evaluation classifies as Proceed ends with
\* exactly one new body entity in the document and none of the shape, solid
\* and refined entities the call created.
C1_ProceedGivesOneBody ==
  (cpc = "ret" /\ c_eval.result = "proceed") =>
     /\ Cardinality(NewBodies) = 1
     /\ Intermediates \cap Names(document) = {}

\* C1 amended: when convert_single_mesh returns success, the mesh was
\* classified Proceed, the document holds exactly one new body entity, the
\* one whose name is returned, and none of the shape, solid and refined
\* entities the call created.
C1_SuccessGivesOneBody ==
  ConvertSucceeded =>
     /\ c_eval.result = "proceed"
     /\ Cardinality(NewBodies) = 1
     /\ \A i \in NewBodies : document[i].Name = c_result.body_name
     /\ Cardinality(Intermediates) = 3
     /\ Intermediates \cap Names(document) = {}

C1_Witness ==
  /\ ConvertSucceeded
  /\ c_eval.result = "proceed"
  /\ Cardinality(NewBodies) = 1

\* C2: whenever convert_single_mesh returns failure, the original mesh entity
\* is still in the document and its mesh data is what it was before the call.
C2_FailureKeepsMesh ==
  ConvertFailed =>
     /\ c_mesh_obj \in Names(document)
     /\ getObject(document, c_mesh_obj).Mesh = getObject(c_entry, c_mesh_obj).Mesh

\* C3: whenever convert_single_mesh returns failure, none of the entities the
\* call created (shape, solid, refined solid, simple copy, body) is left in
\* the document.
C3_FailureLeavesNothing ==
  ConvertFailed => AllCreated \cap Names(document) = {}

\* C4: a repair of a clean mesh on which every corrective step is a no-op
\* leaves the point and facet counts alone and reports a no-op: nothing
\* recorded as applied, nothing written back, failure returned.
C4_CleanRepairIsNoOp ==
  (/\ rpc = "ret"
   /\ original_mesh_topology # NoMesh
   /\ IsClean(original_mesh_topology)
   /\ mutable_mesh = original_mesh_topology) =>
     /\ getObject(document, r_mesh_obj).Mesh.CountPoints
          = original_mesh_topology.CountPoints
     /\ getObject(document, r_mesh_obj).Mesh.CountFacets
          = original_mesh_topology.CountFacets
     /\ repairs_applied = <<>>
     /\ writes = 0
     /\ r_result = FALSE

\* C5: in every state of the repair the flag
\* self_intersections_fixed_on_mutable is true only if the initial
\* hasSelfIntersections query returned true, and that query returned what the
\* entity's mesh data said.
C5_FlagOnlyOnPriorityBranch ==
  /\ self_intersections_fixed_on_mutable => initial_has_self_intersections
  /\ initial_has_self_intersections =>
        /\ original_mesh_topology # NoMesh
        /\ original_mesh_topology.hasSelfIntersections

C5_Witness ==
  /\ rpc = "ret"
  /\ self_intersections_fixed_on_mutable
  /\ initial_has_self_intersections

\* The items of the batch by what evaluation said of them.
ItemsWhere(P(_)) == {i \in DOMAIN b_items : P(b_items[i])}

WasClean(item) == item.eval.result = "proceed" /\ item.eval.repairs = 0

WasRepaired(item) == item.eval.result = "proceed" /\ item.eval.repairs > 0

WasUnfixable(item) == item.eval.result = "repair"

CountedFailed(item) ==
  \E k \in DOMAIN results.failed_objects : results.failed_objects[k] = item.name

\* C6: a batch run that returns its summary reports converted = K + R and
\* skipped >= F, K being the clean meshes, R the repaired ones and F the
\* unfixable ones, and counts as failed only meshes that are gone from the
\* document.
C6_SummaryCounts ==
  bpc = "ret" =>
     /\ results.converted
          = Cardinality(ItemsWhere(WasClean)) + Cardinality(ItemsWhere(WasRepaired))
     /\ results.skipped >= Cardinality(ItemsWhere(WasUnfixable))
     /\ \A i \in DOMAIN b_items : CountedFailed(b_items[i]) => ~b_items[i].present

\* What evaluate_mesh_automated must return for the predicates it queried.
Tabled(q, repaired) ==
  IF q.is_solid
  THEN IF ~q.has_non_manifolds /\ ~q.has_self_intersections
       THEN "proceed"
       ELSE IF repaired THEN "proceed" ELSE "repair"
  ELSE "repair"

\* C7: evaluate_mesh_automated always returns, and what it returns follows
\* the decision table: a query that raised gives Cancel; solid and flawless
\* gives Proceed with no repair invoked; solid with a flaw invokes repair
\* exactly once and gives Proceed when the repair succeeded, NeedsRepair
\* otherwise; not solid gives NeedsRepair with no repair invoked.
C7_DecisionTable ==
  epc = "ret" =>
     IF e_query = NoQuery
     THEN e_result = "cancel" /\ e_repairs = 0 /\ rpc = "idle"
     ELSE /\ e_query = Query(IF writes = 0
                             THEN getObject(document, e_selected_mesh).Mesh
                             ELSE original_mesh_topology)
          /\ e_result = Tabled(e_query, r_result)
          /\ IF e_query.is_solid
                /\ (e_query.has_non_manifolds \/ e_query.has_self_intersections)
             THEN e_repairs = 1 /\ rpc = "ret"
             ELSE e_repairs = 0 /\ rpc = "idle"

C7_Witness ==
  /\ epc = "ret"
  /\ e_query # NoQuery
  /\ e_query.is_solid /\ e_query.has_self_intersections
  /\ e_repairs = 1
  /\ e_result = "proceed"

\* The mesh data the entity had when convert_single_mesh was called.
EntryMesh == getObject(c_entry, c_mesh_obj).Mesh

\* C8: while a mesh that is not solid is converted, no repair is invoked,
\* its mesh data is never written and it stays in the document as it was;
\* the evaluation classifies it NeedsRepair (Cancel when the query itself
\* raised) and convert_single_mesh returns (False, None) with the document
\* as it found it.
C8_NotSolidUntouched ==
  (cpc # "idle" /\ ~EntryMesh.isSolid) =>
     /\ rpc = "idle" /\ repairs_applied = <<>>
     /\ writes = 0
     /\ c_mesh_obj \in Names(document)
     /\ getObject(document, c_mesh_obj).Mesh = EntryMesh
     /\ cpc = "ret" =>
          /\ c_eval.result \in {"repair", "cancel"}
          /\ faults = 0 => c_eval.result = "repair"
          /\ c_eval.repairs = 0
          /\ c_result = [success |-> FALSE, body_name |-> None]
          /\ document = c_entry

C8_Witness ==
  /\ cpc = "ret"
  /\ ~EntryMesh.isSolid /\ EntryMesh.CountFacets = 0
  /\ c_eval.result = "repair"
  /\ ~c_result.success

\* C9: when the queried mesh is solid with self-intersections, the priority
\* fix removed them, no call raised and the backend left the copy solid and
\* without flaws, then repair was invoked once, it applied
\* fix-self-intersections and then harmonize-normals, the copy was written
\* back to the entity, the entity's mesh data is solid without non-manifolds
\* or self-intersections, and evaluate_mesh_automated returns Proceed.
C9_FixedThenProceed ==
  (/\ epc = "ret"
   /\ e_query # NoQuery
   /\ e_query.is_solid /\ e_query.has_self_intersections
   /\ faults = 0
   /\ self_intersections_fixed_on_mutable
   /\ IsClean(mutable_mesh)) =>
     /\ e_repairs = 1
     /\ Len(repairs_applied) >= 2
     /\ repairs_applied[1] = FixLabel
     /\ repairs_applied[2] = HarmonizeLabel
     /\ writes = 1
     /\ recomputes = RepairRecomputes
     /\ getObject(document, e_selected_mesh).Mesh = mutable_mesh
     /\ IsClean(getObject(document, e_selected_mesh).Mesh)
     /\ r_result
     /\ e_result = "proceed"

C9_Witness ==
  /\ epc = "ret"
  /\ e_query # NoQuery
  /\ e_query.is_solid /\ e_query.has_self_intersections /\ ~e_query.has_non_manifolds
  /\ faults = 0
  /\ self_intersections_fixed_on_mutable
  /\ IsClean(getObject(document, e_selected_mesh).Mesh)
  /\ writes = 1
  /\ e_result = "proceed"

\* C10: as long as repairs_applied is empty the entity's mesh data is not
\* assigned and no recompute is triggered, and a repair that returns with
\* repairs_applied empty returns failure; the mesh data is written only when
\* at least one step succeeded.
C10_NoStepNoWrite ==
  /\ repairs_applied = <<>> =>
        /\ writes = 0 /\ recomputes = 0
        /\ original_mesh_topology # NoMesh =>
              getObject(document, r_mesh_obj).Mesh = original_mesh_topology
  /\ (rpc = "ret" /\ repairs_applied = <<>>) => ~r_result
  /\ writes > 0 => repairs_applied # <<>>
  /\ recomputes > 0 => writes > 0

C10_Witness ==
  /\ rpc = "ret"
  /\ repairs_applied = <<>>
  /\ original_mesh_topology # NoMesh
  /\ faults >= Len(repair_methods) + 1
  /\ ~r_result

\* A call of the step raised.
StepRaised == faults' = faults + 1

\* The positions of the repair at which a corrective call is made.
StepPositions == {"fix", "harmonize", "loop", "fill"}

\* What every step of the repair does, whether or not its call raises: a
\* raising call leaves the copy and the list alone, the general passes and
\* the hole filling follow, and the write-back follows when the list is not
\* empty.
StepsGoOn ==
  /\ (rpc \in StepPositions /\ StepRaised) => UNCHANGED <<mutable_mesh, repairs_applied>>
  /\ rpc = "loop" => IF r_method < Len(repair_methods)
                     THEN rpc' = "loop" /\ r_method' = r_method + 1
                     ELSE rpc' = "fill"
  /\ rpc = "fill" => rpc' = "applied"
  /\ (rpc = "applied" /\ repairs_applied # <<>>) => rpc' = "write"

Committed == getObject(document, r_mesh_obj).Mesh

\* Solid, no non-manifolds, no self-intersections, the last one being the
\* outcome tracked by the priority pass when it ran and the entity's own
\* answer otherwise.
CommittedVerdict ==
  /\ Committed.isSolid
  /\ ~Committed.hasNonManifolds
  /\ IF initial_has_self_intersections
     THEN self_intersections_fixed_on_mutable
     ELSE ~Committed.hasSelfIntersections

\* C12: the repair returns success only after a step succeeded and the copy
\* was written back, and only if the committed mesh passes the verdict; the
\* re-query after the write-back, when none of its calls raises, returns
\* exactly that verdict.
C12_SuccessIffVerdict ==
  /\ []((rpc = "ret" /\ r_result) =>
          /\ repairs_applied # <<>>
          /\ writes = 1
          /\ Committed = mutable_mesh
          /\ CommittedVerdict)
  /\ [][(rpc = "requery" /\ ~StepRaised) =>
          /\ repairs_applied # <<>>
          /\ rpc' = "ret"
          /\ r_result' = CommittedVerdict]_vars

C12_Witness ==
  /\ rpc = "ret"
  /\ r_result
  /\ initial_has_self_intersections
  /\ self_intersections_fixed_on_mutable
  /\ Committed.hasSelfIntersections

\* C13: convert_single_mesh makes no transaction call when the caller owns
\* the transaction; otherwise its first call opens one, nothing else is
\* called while it runs, and it returns after exactly one more call: commit
\* on success, abort on every failure, the evaluation that is not Proceed
\* included.
C13_OwnTransactionOnly ==
  /\ base_transaction => txnLog = <<>>
  /\ cpc = "open" => txnLog = <<>>
  /\ (~base_transaction /\ cpc \notin {"idle", "open", "ret"}) =>
        txnLog = <<"open">> /\ txnOpen
  /\ (~base_transaction /\ cpc = "ret") =>
        /\ txnLog = <<"open", IF c_result.success THEN "commit" ELSE "abort">>
        /\ ~txnOpen

C13_Witness ==
  /\ cpc = "ret"
  /\ ~base_transaction
  /\ c_eval.result = "repair"
  /\ ~c_result.success
  /\ txnLog = <<"open", "abort">>

BatchCommitted == \E k \in DOMAIN txnLog : txnLog[k] = "commit"

\* C14: when an exception escapes the loop of convert_all_document_meshes,
\* the batch transaction is aborted and never committed and the run returns
\* None; a commit of the batch transaction happens only after every
\* discovered mesh has been processed.
C14_BatchAllOrNothing ==
  /\ bpc = "except" => txnLog = <<"open">> /\ txnOpen
  /\ (bpc = "retNone" /\ ActiveDocument) => txnLog = <<"open", "abort">> /\ ~txnOpen
  /\ BatchCommitted =>
        /\ bpc = "ret"
        /\ txnLog = <<"open", "commit">>
        /\ b_i = Len(mesh_objects) + 1
        /\ Len(b_items) = Len(mesh_objects)

C14_Witness ==
  /\ bpc = "retNone"
  /\ ActiveDocument
  /\ Len(b_items) = 1
  /\ Len(mesh_objects) = 2
  /\ txnLog = <<"open", "abort">>

\* The item was classified Proceed and its conversion failed all the same:
\* the construction of the shape, the solid or the body was invalid or
\* raised.
ConversionError(item) == item.eval.result = "proceed" /\ ~item.success

\* C15: every item of a batch whose conversion hit a conversion error is
\* reported in the failed list of the summary, and the batch goes on to the
\* next item.
C15_ConversionErrorIsFailed ==
  \A i \in DOMAIN b_items :
     ConversionError(b_items[i]) =>
        /\ CountedFailed(b_items[i])
        /\ b_i > i

CountedSkipped(item) ==
  \E k \in DOMAIN results.skipped_objects : results.skipped_objects[k] = item.name

CountedConverted(item) ==
  \E k \in DOMAIN results.converted_objects :
     results.converted_objects[k].original = item.name

\* The entity types that expose mesh data, as discovery sees them.
MeshTypes == {"Mesh::Feature", "Mesh::FeaturePython"}

\* When the item was classified, an entity of its name was still in the
\* document and still exposed mesh data.
StillMeshTyped(item) == item.present /\ item.type \in MeshTypes

\* The item hit an error: its evaluation was cancelled by an exception or
\* its conversion failed after Proceed.
Errored(item) == item.eval.result = "cancel" \/ ConversionError(item)

\* C16: an item is listed as converted exactly when its conversion reported
\* success; an item whose conversion did not report success is listed as
\* failed when its entity is gone, and, when it hit no error, as skipped
\* exactly when an entity of its name was still in the document and still
\* mesh-typed, and as failed exactly when it was not.
C16_ClassifiedByDocument ==
  \A i \in DOMAIN b_items :
     LET item == b_items[i]
     IN  /\ CountedConverted(item) <=> item.success
         /\ (~item.success /\ ~item.present) => CountedFailed(item)
         /\ (~item.success /\ ~Errored(item)) =>
              /\ CountedSkipped(item) <=> StillMeshTyped(item)
              /\ CountedFailed(item) <=> ~StillMeshTyped(item)

\* C17: with no active document, discovery returns the empty list, and
\* convert_all_document_meshes returns None at once: no transaction call is
\* made, nothing is discovered, no conversion is started, and nothing is
\* written or recomputed.
C17_NoDocumentNoEffect ==
  ~ActiveDocument =>
     /\ find_all_mesh_objects_default = <<>>
     /\ bpc \in {"start", "retNone"}
     /\ txnLog = <<>> /\ ~txnOpen
     /\ mesh_objects = <<>> /\ b_items = <<>> /\ results = NewResults(0)
     /\ cpc = "idle" /\ epc = "idle" /\ rpc = "idle"
     /\ document = <<>> /\ writes = 0 /\ recomputes = 0 /\ faults = 0

C17_Witness == ~ActiveDocument /\ bpc = "retNone"

\* The passes of the repair, in the order of C18.
PassOrder ==
  <<"Fix self-intersections (priority)",
    "Harmonize Normals (after self-intersection fix)",
    "Remove duplicate points", "Remove duplicate facets", "Remove invalid points",
    "Remove non-manifolds", "Remove surface folds", "Fill small holes">>

Applied(label) == \E k \in DOMAIN repairs_applied : repairs_applied[k] = label

PassIndex(label) == CHOOSE k \in DOMAIN PassOrder : PassOrder[k] = label

\* C18: in every state of the repair the list of applied repairs is a
\* subsequence of the fixed order of passes; the fix is applied only when
\* self-intersections were initially present and harmonize only right after
\* an applied fix; and until the one write-back the entity's mesh data is
\* what it was, whatever the passes did to the copy.
C18_FixedOrderOnCopy ==
  /\ \A k \in DOMAIN repairs_applied :
        \E n \in DOMAIN PassOrder : PassOrder[n] = repairs_applied[k]
  /\ \A k, l \in DOMAIN repairs_applied :
        k < l => PassIndex(repairs_applied[k]) < PassIndex(repairs_applied[l])
  /\ Applied(PassOrder[1]) => initial_has_self_intersections
  /\ Applied(PassOrder[2]) =>
        repairs_applied[1] = PassOrder[1] /\ repairs_applied[2] = PassOrder[2]
  /\ writes <= 1
  /\ writes = 1 => rpc \in {"recompute", "requery", "ret"}
  /\ (writes = 0 /\ original_mesh_topology # NoMesh) =>
        getObject(document, r_mesh_obj).Mesh = original_mesh_topology

C18_Witness ==
  /\ rpc = "applied"
  /\ repairs_applied = PassOrder
  /\ mutable_mesh # original_mesh_topology
  /\ getObject(document, r_mesh_obj).Mesh = original_mesh_topology

\* The summary has its three name lists, and each count is the length of
\* its list.
CountsMatchLists(res) ==
  /\ {"converted_objects", "skipped_objects", "failed_objects"} \subseteq DOMAIN res
  /\ res.converted = Len(res.converted_objects)
  /\ res.skipped = Len(res.skipped_objects)
  /\ res.failed = Len(res.failed_objects)

\* In how many places of the three lists the name stands.
TimesListed(res, name) ==
  Cardinality({k \in DOMAIN res.converted_objects : res.converted_objects[k].original = name})
  + Cardinality({k \in DOMAIN res.skipped_objects : res.skipped_objects[k] = name})
  + Cardinality({k \in DOMAIN res.failed_objects : res.failed_objects[k] = name})

\* The items processed so far are the first discovered meshes, in order,
\* each in exactly one place of the lists, and the counts add up to them.
ProcessedOnce ==
  /\ CountsMatchLists(results)
  /\ results.total_meshes = Len(mesh_objects)
  /\ Len(b_items) = b_i - 1
  /\ Len(b_items) <= Len(mesh_objects)
  /\ \A i \in DOMAIN b_items :
        /\ b_items[i].name = mesh_objects[i]
        /\ TimesListed(results, b_items[i].name) = 1
  /\ results.converted + results.skipped + results.failed = Len(b_items)

OneTransaction(closing) == txnLog = <<"open", closing>> /\ ~txnOpen

Bystanders == Names(c_entry) \ {c_mesh_obj}

\* C21: when convert_single_mesh returns, every entity that was in the
\* document before the call, the mesh to convert aside, is still in the
\* document: the cleanup of a failure removes only what the call created.
C21_BystandersKept ==
  cpc = "ret" => Bystanders \subseteq Names(document)

====
